---- MODULE Spec2Model ----
(***************************************************************************)
(* Model of src/prediction.py: the per-zone forecasting pipeline (main),   *)
(* the historical dataset preparer (prepare_training_data) and the feature *)
(* encoder (build_exog_from_weather).                                      *)
(*                                                                         *)
(* Timestamps are whole hours counted from Monday 2024-12-30 00:00, so     *)
(* that hour 48 is 2025-01-01 00:00 (a Wednesday).  Forecast values are    *)
(* fixed-point numbers in tenths.  A cell of a data frame is a record      *)
(* [null, v]; null = TRUE is pandas' NaN.                                  *)
(***************************************************************************)
EXTENDS Integers, Sequences, FiniteSets, TLC

VARIABLES
    pc,                     \* position of main(): start, prepare, fetch, sleep, process, assemble, done, returned, crashed
    zones,                  \* zones = load_zones_from_models()
    idx,                    \* 0-based position of the for loop in zones
    df_train,               \* frame returned by prepare_training_data()
    weather_df,             \* result of fetch_live_weather_for_zone for the current zone
    all_zone_daily_loads,   \* accumulator, src line 301
    all_zone_peak_hours,    \* accumulator, src line 302
    all_zone_top_two_days,  \* accumulator, src line 303
    fields,                 \* the assembled output record
    stdout,                 \* what the process printed, in order
    net,                    \* outbound weather requests and pacing delays, in order
    fetched,                \* history: how each zone's weather fetch ended
    rec,                    \* history: what each loop iteration appended to the accumulators
    enc_pc,                 \* encoder harness: position
    enc_in,                 \* encoder harness: the input series
    enc_out                 \* encoder harness: the encoded frames

vars == <<pc, zones, idx, df_train, weather_df, all_zone_daily_loads,
          all_zone_peak_hours, all_zone_top_two_days, fields, stdout, net, fetched,
          rec, enc_pc, enc_in, enc_out>>

pipeVars == <<pc, zones, idx, df_train, weather_df, all_zone_daily_loads,
              all_zone_peak_hours, all_zone_top_two_days, fields, stdout, net, fetched, rec>>

encVars == <<enc_pc, enc_in, enc_out>>

(***************************************************************************)
(* Bounds of the model.                                                    *)
(***************************************************************************)
MaxZones == 2       \* at most this many stored parameter files
MaxRows == 2        \* at most this many rows in the historical table
MaxLen == 2         \* at most this many rows in an encoder input series
MaxPrepRows == 3    \* at most this many rows in a table of the preparer harness
MaxDelta == 30      \* temperatures range over TBASE - MaxDelta .. TBASE + MaxDelta

(***************************************************************************)
(* Program constants.                                                      *)
(***************************************************************************)
TBASE == 18
Hours == 24
WindowStartDays == 10
WindowStopDays == 9
TopDays == 10
ForecastDays == 11
CutoverYear == 2025

\* ZONE_LOCATIONS: only membership matters to the pipeline.
ZONE_LOCATIONS ==
    {"COMED", "PSEG", "DOM", "BGE", "AEP", "AECO", "AEPAPT", "AEPIMP", "AEPKPT",
     "AEPOPT", "AP", "BC", "CE", "DAY", "DEOK", "DPLCO", "DUQ", "EASTON", "EKPC",
     "JC", "ME", "OE", "OVEC", "PAPWR", "PE", "PEPCO", "PLCO", "PN", "PS", "RECO",
     "SMECO", "UGI", "VMEU"}

\* exog_cols of prepare_training_data (src line 254), which main() also uses
ExogCols == <<"CDH", "HDH", "dow_1", "dow_2", "dow_3", "dow_4", "dow_5", "dow_6">>

\* exog_cols of build_exog_from_weather (src line 278)
ExogColsFuture == <<"CDH", "HDH", "dow_1", "dow_2", "dow_3", "dow_4", "dow_5", "dow_6">>

(***************************************************************************)
(* Generic helpers.                                                        *)
(***************************************************************************)
Range(s) == {s[i] : i \in DOMAIN s}

Max(a, b) == IF a >= b THEN a ELSE b

SetMin(S) == CHOOSE x \in S : \A y \in S : x <= y

RECURSIVE SortedSeq(_)
SortedSeq(S) == IF S = {} THEN <<>> ELSE <<SetMin(S)>> \o SortedSeq(S \ {SetMin(S)})

RECURSIVE Flatten(_)
Flatten(ss) == IF ss = <<>> THEN <<>> ELSE Head(ss) \o Flatten(Tail(ss))

Cell(x) == [null |-> FALSE, v |-> x]
NaN == [null |-> TRUE, v |-> 0]

\* pandas Series.dt.dayofweek and .dt.year on the model's hour timestamps
DayOfWeek(ts) == (ts \div 24) % 7
YearOf(ts) == IF ts < 48 THEN 2024 ELSE 2025

\* Mutant of ClipLower0: the difference is not clipped.
ClipNothing(c) == c

\* Series.clip(lower=0) of a difference; NaN stays NaN
ClipLower0(c) == IF c.null THEN NaN ELSE Cell(Max(0, c.v))
Minus(a, b) == IF a.null \/ b.null THEN NaN ELSE Cell(a.v - b.v)

(***************************************************************************)
(* Data frames: [cols |-> sequence of column names, rows |-> sequence of   *)
(* functions from column name to cell].                                    *)
(***************************************************************************)
\* df[name] = col, where col holds one cell per row
WithColumn(df, name, col) ==
    [cols |-> IF name \in Range(df.cols) THEN df.cols ELSE Append(df.cols, name),
     rows |-> [i \in DOMAIN df.rows |->
                 [c \in DOMAIN df.rows[i] \cup {name} |->
                     IF c = name THEN col[i] ELSE df.rows[i][c]]]]

\* df[cols]
SelectCols(df, cols) ==
    [cols |-> cols,
     rows |-> [i \in DOMAIN df.rows |-> [c \in Range(cols) |-> df.rows[i][c]]]]

\* df[mask]: the rows whose mask entry is TRUE, in order
RECURSIVE MaskSeq(_, _)
MaskSeq(s, mask) ==
    IF s = <<>> THEN <<>>
    ELSE (IF Head(mask) THEN <<Head(s)>> ELSE <<>>) \o MaskSeq(Tail(s), Tail(mask))

FilterRows(df, mask) == [cols |-> df.cols, rows |-> MaskSeq(df.rows, mask)]

DowName(d) == <<"dow_0", "dow_1", "dow_2", "dow_3", "dow_4", "dow_5", "dow_6">>[d + 1]

\* The levels pd.get_dummies(..., drop_first=True) keeps: the sorted levels that
\* occur in the column, without the first of them.
DummyLevels(df) ==
    LET present == SortedSeq({df.rows[i]["dow"].v : i \in DOMAIN df.rows})
    IN  IF present = <<>> THEN <<>> ELSE Tail(present)

\* pd.get_dummies(df, columns=["dow"], prefix="dow", dtype=float, drop_first=True):
\* the dow column is removed and one 0/1 column per kept level is appended.
GetDummies(df) ==
    LET levels == DummyLevels(df)
        names == [k \in DOMAIN levels |-> DowName(levels[k])]
        kept == SelectSeq(df.cols, LAMBDA c : c # "dow")
    IN  [cols |-> kept \o names,
         rows |-> [i \in DOMAIN df.rows |->
                     [c \in Range(kept) \cup Range(names) |->
                         IF c \in Range(kept) THEN df.rows[i][c]
                         ELSE IF DowName(df.rows[i]["dow"].v) = c THEN Cell(1) ELSE Cell(0)]]]

\* for col in exog_cols: if col not in df.columns: df[col] = 0.0
ZeroFill(df, cols) ==
    LET missing == SelectSeq(cols, LAMBDA c : c \notin Range(df.cols))
    IN  [cols |-> df.cols \o missing,
         rows |-> [i \in DOMAIN df.rows |->
                     [c \in DOMAIN df.rows[i] \cup Range(missing) |->
                         IF c \in Range(missing) THEN Cell(0) ELSE df.rows[i][c]]]]

(***************************************************************************)
(* Feature encoder, src lines 263-282.  weather_df is a frame indexed by   *)
(* time: [index |-> timestamps, cols |-> column names, temp |-> cells].    *)
(***************************************************************************)
\* src lines 268-281: df_temp with the degree hours, the day-of-week indicators
\* and the zero-filled columns
EncodeFrame(w) ==
    LET df_temp0 == [cols |-> <<"temp", "datetime">>,
                     rows |-> [i \in DOMAIN w.index |->
                                 [c \in {"temp", "datetime"} |->
                                     IF c = "temp" THEN w.temp[i] ELSE Cell(w.index[i])]]]
        df_temp1 == WithColumn(df_temp0, "CDH",
                        [i \in DOMAIN w.index |-> ClipLower0(Minus(w.temp[i], Cell(TBASE)))])
        df_temp2 == WithColumn(df_temp1, "HDH",
                        [i \in DOMAIN w.index |-> ClipLower0(Minus(Cell(TBASE), w.temp[i]))])
        df_temp3 == WithColumn(df_temp2, "dow",
                        [i \in DOMAIN w.index |-> Cell(DayOfWeek(w.index[i]))])
        df_temp4 == GetDummies(df_temp3)
    IN  ZeroFill(df_temp4, ExogColsFuture)

\* Mutant of build_exog_from_weather: returns df_temp itself, not df_temp[exog_cols].
build_exog_unselected(w) == EncodeFrame(w)

\* src line 282: return df_temp[exog_cols]
build_exog_from_weather(w) == SelectCols(EncodeFrame(w), ExogColsFuture)

(***************************************************************************)
(* Historical dataset preparer, src lines 205-261.  csv is the merged file *)
(* [exists, columns, rows]; the result is [raised, df], raised = "" when   *)
(* the function returns.                                                   *)
(***************************************************************************)
NeededCols == <<"datetime_beginning_ept", "load_area", "mw", "temperature_2m">>

NoFrame == [cols |-> <<>>, rows |-> <<>>]

prepare_training_data(csv) ==
    IF ~csv.exists THEN [raised |-> "FileNotFoundError", df |-> NoFrame]
    ELSE IF \E c \in Range(NeededCols) : c \notin csv.columns
    THEN [raised |-> "ValueError", df |-> NoFrame]
    ELSE
    LET df0 == SelectCols([cols |-> NeededCols, rows |-> csv.rows], NeededCols)
        df1 == WithColumn(df0, "dow",
                   [i \in DOMAIN df0.rows |->
                       Cell(DayOfWeek(df0.rows[i]["datetime_beginning_ept"].v))])
        df2 == GetDummies(df1)
        df3 == FilterRows(df2,
                   [i \in DOMAIN df2.rows |-> df2.rows[i]["load_area"].v \notin {"AE", "RTO"}])
        df4 == WithColumn(df3, "CDH",
                   [i \in DOMAIN df3.rows |->
                       ClipLower0(Minus(df3.rows[i]["temperature_2m"], Cell(TBASE)))])
        df5 == WithColumn(df4, "HDH",
                   [i \in DOMAIN df4.rows |->
                       ClipLower0(Minus(Cell(TBASE), df4.rows[i]["temperature_2m"]))])
        df6 == FilterRows(df5,
                   [i \in DOMAIN df5.rows |->
                       YearOf(df5.rows[i]["datetime_beginning_ept"].v) >= CutoverYear])
    IN  IF df6.rows = <<>> THEN [raised |-> "ValueError", df |-> NoFrame]
        ELSE [raised |-> "", df |-> ZeroFill(df6, ExogCols)]

\* DataFrame.sort_values("datetime_beginning_ept"): rows with equal keys keep
\* their order.
RECURSIVE InsertSorted(_, _)
InsertSorted(sorted, r) ==
    IF sorted = <<>> THEN <<r>>
    ELSE IF Head(sorted)["datetime_beginning_ept"].v <= r["datetime_beginning_ept"].v
         THEN <<Head(sorted)>> \o InsertSorted(Tail(sorted), r)
         ELSE <<r>> \o sorted

RECURSIVE SortValues(_)
SortValues(rows) ==
    IF rows = <<>> THEN <<>>
    ELSE InsertSorted(SortValues(SubSeq(rows, 1, Len(rows) - 1)), rows[Len(rows)])

\* Mutant of ZoneSlice: the zone's rows are not sorted by time.
ZoneSliceUnsorted(df, zone) ==
    LET mine == FilterRows(df, [i \in DOMAIN df.rows |-> df.rows[i]["load_area"].v = zone])
    IN  FilterRows(mine,
            [i \in DOMAIN mine.rows |->
                /\ ~mine.rows[i]["mw"].null
                /\ \A c \in Range(ExogCols) : ~mine.rows[i][c].null])

\* src lines 327-328: the zone's rows, sorted by time, rows with a null in mw or
\* in an exog column dropped.
ZoneSlice(df, zone) ==
    LET mine == FilterRows(df, [i \in DOMAIN df.rows |-> df.rows[i]["load_area"].v = zone])
        sorted == [cols |-> mine.cols, rows |-> SortValues(mine.rows)]
    IN  FilterRows(sorted,
            [i \in DOMAIN sorted.rows |->
                /\ ~sorted.rows[i]["mw"].null
                /\ \A c \in Range(ExogCols) : ~sorted.rows[i][c].null])

(***************************************************************************)
(* The state-space forecaster is statsmodels' SARIMAX, outside this        *)
(* repository: what it returns for a zone is an input of the run.  It      *)
(* either raises, or returns a predicted mean of `steps` values: all NaN,  *)
(* or one of two finite shapes (tenths) with a rising or a falling daily   *)
(* level.                                                                  *)
(***************************************************************************)
ForecasterOutcomes == {"raise", "nan", "rising", "falling"}

Forecast(shape, steps) ==
    [nan |-> shape = "nan",
     v |-> [k \in 1..steps |->
              IF shape = "rising"
              THEN 10000 + 5 * ((7 * k) % 24) + 25 * ((k - 1) \div 24)
              ELSE 50000 + 5 * ((5 * k) % 24) - 25 * ((k - 1) \div 24)]]

\* Mutant of SliceFromEnd: the last a - b elements instead of s[-a:-b].
SliceLast(s, a, b) == SubSeq(s, Max(Len(s) - (a - b), 0) + 1, Len(s))

\* s[a:b] of Python for a, b <= 0 given as offsets from the end
SliceFromEnd(s, a, b) ==
    LET start == Max(Len(s) - a, 0)
        stop == Max(Len(s) - b, 0)
    IN  SubSeq(s, start + 1, stop)

\* np.rint on a value in tenths: to the nearest integer, halves to the even one
Rint(t) ==
    LET q == t \div 10
        r == t % 10
    IN  IF r < 5 THEN q
        ELSE IF r > 5 THEN q + 1
        ELSE IF q % 2 = 0 THEN q ELSE q + 1

\* Series.argmax(): 0-based position of the first maximum
ArgMax(s) ==
    (CHOOSE i \in DOMAIN s :
        /\ \A j \in DOMAIN s : s[j] <= s[i]
        /\ \A j \in 1..(i - 1) : s[j] < s[i]) - 1

\* mean_forecast.values.reshape(-1, 24).mean(axis=-1)[-10:], as 24 times the mean
DailyMean(v) ==
    LET days == Len(v) \div Hours
        RECURSIVE Sum(_, _)
        Sum(lo, hi) == IF lo > hi THEN 0 ELSE v[lo] + Sum(lo + 1, hi)
        all == [d \in 1..days |-> Sum((d - 1) * Hours + 1, d * Hours)]
    IN  SliceFromEnd(all, TopDays, 0)

\* top_two = zeros(10); top_two[argsort(daily_mean)[::-1][:2]] = 1.
\* argsort ascending keeps equal days in index order, so reversed the later of
\* two equal days ranks first.
TopTwo(daily_mean) ==
    [j \in 1..TopDays |->
        IF j \notin DOMAIN daily_mean THEN 0
        ELSE LET before == {k \in DOMAIN daily_mean :
                               \/ daily_mean[k] > daily_mean[j]
                               \/ daily_mean[k] = daily_mean[j] /\ k > j}
             IN  IF Cardinality(before) < 2 THEN 1 ELSE 0]

\* Mutant of TopTwoFirst: the flag of the last of the ten days.
TopTwoLast(daily_mean) == TopTwo(daily_mean)[TopDays]

\* top_two[0] (src line 371)
TopTwoFirst(daily_mean) == TopTwo(daily_mean)[1]

SentinelLoads == [h \in 1..Hours |-> -1]

\* What the except handler of src lines 373-376 appends.
HandlerAppends ==
    [loads |-> <<SentinelLoads>>, peaks |-> <<-1>>, tops |-> <<-1>>]

\* src lines 341-376: the try block of one zone that has weather and history.
\* The result names what the iteration appended to each accumulator and what it
\* printed; kind names where the block ended; forecast and top_two are the
\* predicted mean and the flag vector of a block that ran to its end.
\* exog_future holds one row per row of weather_df (build_exog_from_weather
\* adds and selects columns only), so steps = len(exog_future) is the row
\* count of weather_df.
ForecastBlock(w, fc) ==
    LET steps == Len(w.index)
        mean_forecast == Forecast(fc, steps)
        last_24 == SliceFromEnd(mean_forecast.v, Hours * WindowStartDays, Hours * WindowStopDays)
        daily_loads_int == [i \in DOMAIN last_24 |-> Rint(last_24[i])]
        peak_hour == ArgMax(last_24)
        daily_mean == DailyMean(mean_forecast.v)
        top0 == TopTwoFirst(daily_mean)
        h == HandlerAppends
    IN  IF "temp_at_time_t" \notin w.cols \/ fc = "raise"
        THEN \* SARIMAX, filter, build_exog_from_weather or get_forecast raised
             [kind |-> "raised_before_append", loads |-> h.loads, peaks |-> h.peaks,
              tops |-> h.tops, prints |-> <<>>,
              forecast |-> <<>>, top_two |-> <<>>]
        ELSE IF mean_forecast.nan /\ last_24 # <<>>
        THEN \* line 361: astype(int) of NaN raises
             [kind |-> "raised_before_append", loads |-> h.loads, peaks |-> h.peaks,
              tops |-> h.tops, prints |-> <<>>,
              forecast |-> <<>>, top_two |-> <<>>]
        ELSE IF last_24 = <<>>
        THEN \* line 363: argmax of an empty series raises, after line 362 appended
             [kind |-> "raised_after_loads", loads |-> <<daily_loads_int>> \o h.loads,
              peaks |-> h.peaks, tops |-> h.tops, prints |-> <<>>,
              forecast |-> <<>>, top_two |-> <<>>]
        ELSE IF steps % Hours # 0
        THEN \* line 367: reshape(-1, 24) raises, after lines 362 and 364 appended
             [kind |-> "raised_after_peak", loads |-> <<daily_loads_int>> \o h.loads,
              peaks |-> <<peak_hour>> \o h.peaks, tops |-> h.tops, prints |-> <<>>,
              forecast |-> <<>>, top_two |-> <<>>]
        ELSE [kind |-> "success", loads |-> <<daily_loads_int>>, peaks |-> <<peak_hour>>,
              tops |-> <<top0>>, prints |-> <<"daily_mean", "top_two">>,
              forecast |-> mean_forecast.v, top_two |-> TopTwo(daily_mean)]

\* DataFrame.empty: no rows or no columns
FrameEmpty(w) == w.index = <<>> \/ w.cols = {}

\* src lines 319-376: the loop body after the pacing delay.  raised = TRUE is an
\* exception that leaves main().
ZoneBody(zone, w, train, params_ok, fc) ==
    IF w.isNone \/ FrameEmpty(w)
    THEN [raised |-> FALSE, kind |-> "no_weather", loads |-> <<SentinelLoads>>,
              peaks |-> <<-1>>, tops |-> <<>>, prints |-> <<>>,
              forecast |-> <<>>, top_two |-> <<>>]
        ELSE IF ~params_ok
        THEN [raised |-> TRUE, kind |-> "params_unreadable", loads |-> <<>>,
              peaks |-> <<>>, tops |-> <<>>, prints |-> <<>>,
              forecast |-> <<>>, top_two |-> <<>>]
        ELSE IF ZoneSlice(train, zone).rows = <<>>
        THEN [raised |-> FALSE, kind |-> "no_history", loads |-> <<SentinelLoads>>,
              peaks |-> <<-1>>, tops |-> <<>>, prints |-> <<>>,
              forecast |-> <<>>, top_two |-> <<>>]
        ELSE [raised |-> FALSE] @@ ForecastBlock(w, fc)

(***************************************************************************)
(* Inputs of a run.                                                        *)
(***************************************************************************)
\* The names a stored parameter file may carry, in sorted(glob) order.  XYZ has
\* no entry in ZONE_LOCATIONS.
ModelFileZones == <<"AEP", "BGE", "XYZ">>

SubSeqAt(s, I) == [k \in 1..Cardinality(I) |-> s[SortedSeq(I)[k]]]

\* load_zones_from_models, src lines 189-203, for the set I of files present
load_zones_from_models(I) == SubSeqAt(ModelFileZones, I)

HistRow(ts, area, mw, temp) ==
    [c \in Range(NeededCols) |->
        IF c = "datetime_beginning_ept" THEN Cell(ts)
        ELSE IF c = "load_area" THEN Cell(area)
        ELSE IF c = "mw" THEN mw ELSE temp]

\* Rows the merged file may hold: Monday 2025-01-06, Tuesday 2025-01-07 01:00,
\* Tuesday 2024-12-31 (before the cutover), a row without load, an aggregate row.
HistRowPool ==
    <<HistRow(7 * 24, "AEP", Cell(900), Cell(25)),
      HistRow(8 * 24 + 1, "BGE", Cell(700), Cell(10)),
      HistRow(24, "AEP", Cell(800), Cell(5)),
      HistRow(9 * 24, "AEP", NaN, Cell(20)),
      HistRow(10 * 24, "RTO", Cell(5000), Cell(15))>>

CsvInputs ==
    {[exists |-> FALSE, columns |-> {}, rows |-> <<>>],
     [exists |-> TRUE, columns |-> Range(NeededCols) \ {"temperature_2m"}, rows |-> <<>>]}
    \cup {[exists |-> TRUE, columns |-> Range(NeededCols), rows |-> SubSeqAt(HistRowPool, I)] :
            I \in {J \in SUBSET DOMAIN HistRowPool : Cardinality(J) <= MaxRows}}

\* The first hour of the weather window: 2025-11-17 00:00, the reference date.
WindowStart == 322 * 24

None == [isNone |-> TRUE, index |-> <<>>, cols |-> {}, temp |-> <<>>]

HourlyFrame(n, cols) ==
    [isNone |-> FALSE,
     index |-> [k \in 1..n |-> WindowStart + k - 1],
     cols |-> cols,
     temp |-> [k \in 1..n |-> Cell(5 + (k % 24))]]

\* Row counts of the hourly response: 11 days, and windows too short for the
\* reported slice or not whole days.
WeatherLens == {9 * Hours, 9 * Hours + 14, 10 * Hours + 10, ForecastDays * Hours}

\* What the weather API may answer: a failed request, a body without hourly
\* data, or an hourly table.
Responses ==
    {[kind |-> "error", df |-> None], [kind |-> "no_hourly", df |-> None],
     [kind |-> "hourly", df |-> HourlyFrame(0, {"temp_at_time_t"})],
     [kind |-> "hourly", df |-> HourlyFrame(ForecastDays * Hours, {})]}
    \cup {[kind |-> "hourly", df |-> HourlyFrame(n, {"temp_at_time_t"})] : n \in WeatherLens}

\* fetch_live_weather_for_zone, src lines 102-187: the frame returned, the
\* request sent and the flag printed.
fetch_live_weather_for_zone(zone, resp) ==
    IF zone \notin ZONE_LOCATIONS
    THEN [how |-> "unregistered", df |-> None, net |-> <<>>, prints |-> <<>>]
    ELSE IF resp.kind = "error"
    THEN [how |-> "error", df |-> None, net |-> <<"request">>,
          prints |-> <<"FLAG: Exception occurred fetching weather">>]
    ELSE IF resp.kind = "no_hourly"
    THEN [how |-> "no_hourly", df |-> None, net |-> <<"request">>,
          prints |-> <<"FLAG: Weather information absent in API">>]
    ELSE [how |-> "hourly", df |-> resp.df, net |-> <<"request">>, prints |-> <<>>]

(***************************************************************************)
(* main(), src lines 285-387.                                              *)
(***************************************************************************)
TodayStr == "2025-11-18"

\* src lines 378-385
AssembleFields(today, loads, peaks, tops) ==
    <<[quoted |-> TRUE, val |-> today]>>
    \o [i \in DOMAIN Flatten(loads) |-> [quoted |-> FALSE, val |-> Flatten(loads)[i]]]
    \o [i \in DOMAIN peaks |-> [quoted |-> FALSE, val |-> peaks[i]]]
    \o [i \in DOMAIN tops |-> [quoted |-> FALSE, val |-> tops[i]]]

PipeInit ==
    /\ pc = "start"
    /\ zones = <<>>
    /\ idx = 0
    /\ df_train = NoFrame
    /\ weather_df = None
    /\ all_zone_daily_loads = <<>>
    /\ all_zone_peak_hours = <<>>
    /\ all_zone_top_two_days = <<>>
    /\ fields = <<>>
    /\ stdout = <<>>
    /\ net = <<>>
    /\ fetched = <<>>
    /\ rec = <<>>

EncOff ==
    /\ enc_pc = "off"
    /\ enc_in = <<>>
    /\ enc_out = <<>>

Init == PipeInit /\ EncOff

\* src lines 287-293
Discover ==
    /\ pc = "start"
    /\ \E I \in {J \in SUBSET DOMAIN ModelFileZones : Cardinality(J) <= MaxZones} :
          /\ zones' = load_zones_from_models(I)
          /\ IF zones' = <<>>
             THEN /\ stdout' = stdout \o <<"Downloading models", "No models found after download attempt. Exiting.">>
                  /\ pc' = "returned"
             ELSE /\ stdout' = Append(stdout, "Downloading models")
                  /\ pc' = "prepare"
    /\ UNCHANGED <<idx, df_train, weather_df, all_zone_daily_loads, all_zone_peak_hours,
                   all_zone_top_two_days, fields, net, fetched, rec>>
    /\ UNCHANGED encVars

\* Mutant of Prepare: the except branch prints and goes on to the loop.
PrepareNoReturn ==
    /\ pc = "prepare"
    /\ \E csv \in CsvInputs :
          LET r == prepare_training_data(csv)
          IN  /\ stdout' = IF r.raised # "" THEN Append(stdout, "Error preparing training data")
                           ELSE stdout
              /\ pc' = "fetch"
              /\ df_train' = r.df
    /\ UNCHANGED <<zones, idx, weather_df, all_zone_daily_loads, all_zone_peak_hours,
                   all_zone_top_two_days, fields, net, fetched, rec>>
    /\ UNCHANGED encVars

\* src lines 295-306
Prepare ==
    /\ pc = "prepare"
    /\ \E csv \in CsvInputs :
          LET r == prepare_training_data(csv)
          IN  IF r.raised # ""
              THEN /\ stdout' = Append(stdout, "Error preparing training data")
                   /\ pc' = "returned"
                   /\ df_train' = df_train
              ELSE /\ stdout' = stdout
                   /\ pc' = "fetch"
                   /\ df_train' = r.df
    /\ UNCHANGED <<zones, idx, weather_df, all_zone_daily_loads, all_zone_peak_hours,
                   all_zone_top_two_days, fields, net, fetched, rec>>
    /\ UNCHANGED encVars

\* src lines 308-314
Fetch ==
    /\ pc = "fetch"
    /\ \E resp \in Responses :
          LET f == fetch_live_weather_for_zone(zones[idx + 1], resp)
          IN  /\ weather_df' = f.df
              /\ net' = net \o f.net
              /\ stdout' = stdout \o f.prints
              /\ fetched' = Append(fetched, f.how)
    /\ pc' = "sleep"
    /\ UNCHANGED <<zones, idx, df_train, all_zone_daily_loads, all_zone_peak_hours,
                   all_zone_top_two_days, fields, rec>>
    /\ UNCHANGED encVars

\* Mutant of Sleep: the delay only runs when the fetch returned a frame.
SleepOnSuccess ==
    /\ pc = "sleep"
    /\ net' = IF weather_df.isNone THEN net ELSE Append(net, "sleep")
    /\ pc' = "process"
    /\ UNCHANGED <<zones, idx, df_train, weather_df, all_zone_daily_loads,
                   all_zone_peak_hours, all_zone_top_two_days, fields, stdout, fetched, rec>>
    /\ UNCHANGED encVars

\* src line 317
Sleep ==
    /\ pc = "sleep"
    /\ net' = Append(net, "sleep")
    /\ pc' = "process"
    /\ UNCHANGED <<zones, idx, df_train, weather_df, all_zone_daily_loads,
                   all_zone_peak_hours, all_zone_top_two_days, fields, stdout, fetched, rec>>
    /\ UNCHANGED encVars

\* src lines 319-376
Process ==
    /\ pc = "process"
    /\ \E params_ok \in BOOLEAN, fc \in ForecasterOutcomes :
          LET b == ZoneBody(zones[idx + 1], weather_df, df_train, params_ok, fc)
          IN  /\ all_zone_daily_loads' = all_zone_daily_loads \o b.loads
              /\ all_zone_peak_hours' = all_zone_peak_hours \o b.peaks
              /\ all_zone_top_two_days' = all_zone_top_two_days \o b.tops
              /\ stdout' = stdout \o b.prints
              /\ rec' = Append(rec, [zone |-> zones[idx + 1], kind |-> b.kind,
                                     loads |-> b.loads, peaks |-> b.peaks, tops |-> b.tops,
                                     forecast |-> b.forecast, top_two |-> b.top_two])
              /\ pc' = IF b.raised THEN "crashed"
                       ELSE IF idx + 1 = Len(zones) THEN "assemble" ELSE "fetch"
    /\ idx' = idx + 1
    /\ UNCHANGED <<zones, df_train, weather_df, fields, net, fetched>>
    /\ UNCHANGED encVars

\* src lines 378-387
Assemble ==
    /\ pc = "assemble"
    /\ fields' = AssembleFields(TodayStr, all_zone_daily_loads, all_zone_peak_hours,
                                all_zone_top_two_days)
    /\ stdout' = Append(stdout, "record")
    /\ pc' = "done"
    /\ UNCHANGED <<zones, idx, df_train, weather_df, all_zone_daily_loads,
                   all_zone_peak_hours, all_zone_top_two_days, net, fetched, rec>>
    /\ UNCHANGED encVars

Next == Discover \/ Prepare \/ Fetch \/ Sleep \/ Process \/ Assemble

Spec == Init /\ [][Next]_vars

(***************************************************************************)
(* The feature encoder on its own: an input series is drawn, encoded as a  *)
(* live weather frame by build_exog_from_weather, and encoded as the       *)
(* historical table by prepare_training_data.                              *)
(***************************************************************************)
\* One timestamp per weekday, Wednesday 2025-01-01 12:00 to Tuesday 2025-01-07 12:00
EncTimes == {48 + 24 * d + 12 : d \in 0..6}

EncTemps == {10, 25}

EncRows == [ts : EncTimes, temp : EncTemps]

EncSeries == UNION {[1..n -> EncRows] : n \in 1..MaxLen}

\* The series as the frame fetch_live_weather_for_zone returns (src lines 160-165)
AsWeather(series) ==
    [isNone |-> FALSE,
     index |-> [i \in DOMAIN series |-> series[i].ts],
     cols |-> {"temp_at_time_t"},
     temp |-> [i \in DOMAIN series |-> Cell(series[i].temp)]]

\* The series as the merged historical file, all rows of one zone
AsCsv(series) ==
    [exists |-> TRUE, columns |-> Range(NeededCols),
     rows |-> [i \in DOMAIN series |->
                 HistRow(series[i].ts, "AEP", Cell(900), Cell(series[i].temp))]]

EncInit ==
    /\ enc_pc = "input"
    /\ enc_in \in EncSeries
    /\ enc_out = <<>>

PipeOff ==
    /\ pc = "off"
    /\ zones = <<>>
    /\ idx = 0
    /\ df_train = NoFrame
    /\ weather_df = None
    /\ all_zone_daily_loads = <<>>
    /\ all_zone_peak_hours = <<>>
    /\ all_zone_top_two_days = <<>>
    /\ fields = <<>>
    /\ stdout = <<>>
    /\ net = <<>>
    /\ fetched = <<>>
    /\ rec = <<>>

EncodeWeather ==
    /\ enc_pc = "input"
    /\ enc_out' = Append(enc_out, build_exog_from_weather(AsWeather(enc_in)))
    /\ enc_pc' = "weather"
    /\ UNCHANGED enc_in
    /\ UNCHANGED pipeVars

EncodeTraining ==
    /\ enc_pc = "weather"
    /\ enc_out' = Append(enc_out,
                      SelectCols(prepare_training_data(AsCsv(enc_in)).df, ExogCols))
    /\ enc_pc' = "done"
    /\ UNCHANGED enc_in
    /\ UNCHANGED pipeVars

NextEnc == EncodeWeather \/ EncodeTraining

InitEnc == EncInit /\ PipeOff

SpecEnc == InitEnc /\ [][NextEnc]_vars

(***************************************************************************)
(* Properties of the per-zone loop and of the output record.               *)
(***************************************************************************)
Count(s, x) == Cardinality({i \in DOMAIN s : s[i] = x})

Last(s) == s[Len(s)]

LoopOver == pc \in {"assemble", "done"}

FailureKinds ==
    {"no_weather", "no_history", "raised_before_append", "raised_after_loads",
     "raised_after_peak"}

\* C1: every zone iteration that takes one of the paths of the loop body (no
\* weather, no history, success, an exception inside the try block) appends
\* exactly one load curve and exactly one peak hour, so that after k zones each
\* of the two accumulators holds k entries.
C1_OneEntryPerIteration ==
    /\ \A i \in DOMAIN rec :
          rec[i].kind \in FailureKinds \cup {"success"} =>
              Len(rec[i].loads) = 1 /\ Len(rec[i].peaks) = 1
    /\ pc # "crashed" =>
          /\ Len(all_zone_daily_loads) = Len(rec)
          /\ Len(all_zone_peak_hours) = Len(rec)

\* C2: a zone that fails for a recoverable cause is recorded with the full
\* sentinel record: 24 loads of -1, peak hour -1 and anomaly flag -1.
C2_FullSentinelRecord ==
    \A i \in DOMAIN rec :
        rec[i].kind \in FailureKinds =>
            /\ rec[i].loads = <<SentinelLoads>>
            /\ rec[i].peaks = <<-1>>
            /\ rec[i].tops = <<-1>>

\* C3: the output record has 1 + 26 * Z fields: the date, 24 loads per zone in
\* zone order, one peak hour per zone, one anomaly flag per zone, the i-th entry
\* of each block being the i-th zone's.
C3_OutputLayout ==
    pc = "done" =>
        LET Z == Len(zones)
        IN  /\ Len(fields) = 1 + 26 * Z
            /\ fields[1] = [quoted |-> TRUE, val |-> TodayStr]
            /\ \A i \in 1..Z :
                  /\ rec[i].zone = zones[i]
                  /\ rec[i].loads # <<>> /\ Len(Last(rec[i].loads)) = Hours
                  /\ \A h \in 1..Hours :
                        fields[1 + Hours * (i - 1) + h].val = Last(rec[i].loads)[h]
                  /\ rec[i].peaks # <<>>
                  /\ fields[1 + Hours * Z + i].val = Last(rec[i].peaks)
                  /\ rec[i].tops # <<>>
                  /\ fields[1 + (Hours + 1) * Z + i].val = Last(rec[i].tops)

\* C4: a zone that ends on the success path stores 24 load values and a peak
\* hour in 0..23, and no load curve of another length ever enters the
\* accumulator, whatever the length of the forecast.
C4_LoadCurveShape ==
    /\ \A i \in DOMAIN rec :
          rec[i].kind = "success" =>
              /\ Len(rec[i].loads) = 1
              /\ rec[i].peaks \in {<<h>> : h \in 0..(Hours - 1)}
    /\ \A k \in DOMAIN all_zone_daily_loads : Len(all_zone_daily_loads[k]) = Hours

\* The record of the i-th zone as the output's layout reads it: the i-th entry
\* of each accumulator, "missing" where an accumulator has no i-th entry.
RecordAt(i) ==
    [loads |-> IF i <= Len(all_zone_daily_loads) THEN <<all_zone_daily_loads[i]>> ELSE <<>>,
     peak |-> IF i <= Len(all_zone_peak_hours) THEN <<all_zone_peak_hours[i]>> ELSE <<>>,
     top |-> IF i <= Len(all_zone_top_two_days) THEN <<all_zone_top_two_days[i]>> ELSE <<>>]

\* C5: in a run whose zones either lose their weather fetch (the request raises
\* or the body has no hourly data) or succeed, the loop visits every zone once,
\* a zone without weather has the all -1 record, and the record of every other
\* zone is the one computed from that zone's own inputs.
C5_FaultIsolation ==
    (/\ LoopOver
     /\ \A i \in DOMAIN rec :
           \/ rec[i].kind = "no_weather" /\ fetched[i] \in {"error", "no_hourly"}
           \/ rec[i].kind = "success")
    => /\ Len(rec) = Len(zones)
       /\ \A i \in DOMAIN rec : rec[i].zone = zones[i]
       /\ \A i \in DOMAIN rec :
             IF rec[i].kind = "no_weather"
             THEN RecordAt(i) = [loads |-> <<SentinelLoads>>, peak |-> <<-1>>, top |-> <<-1>>]
             ELSE RecordAt(i) = [loads |-> rec[i].loads, peak |-> rec[i].peaks,
                                 top |-> rec[i].tops]

(***************************************************************************)
(* Properties of the feature encoder, checked under SpecEnc.               *)
(***************************************************************************)
\* C6: in every encoded frame each indicator dow_1..dow_6 is 0 or 1, dow_d is 1
\* exactly on the rows whose timestamp falls on weekday d, and a Monday row has
\* all six at 0, also when some weekday (Monday included) never occurs.
C6_DowIndicators ==
    \A k \in DOMAIN enc_out :
        /\ Len(enc_out[k].rows) = Len(enc_in)
        /\ \A i \in DOMAIN enc_in : \A d \in 1..6 :
              /\ enc_out[k].rows[i][DowName(d)] \in {Cell(0), Cell(1)}
              /\ enc_out[k].rows[i][DowName(d)] = Cell(1) <=> DayOfWeek(enc_in[i].ts) = d

C8_PacingDelay ==
    /\ Count(net, "sleep") = Len(fetched) - (IF pc = "sleep" THEN 1 ELSE 0)
    /\ Len(rec) <= Count(net, "sleep")
    /\ pc = "process" => Count(net, "sleep") = Len(rec) + 1
    /\ \A i, j \in DOMAIN net :
          i < j /\ net[i] = "request" /\ net[j] = "request"
              => \E k \in (i + 1)..(j - 1) : net[k] = "sleep"

\* A finished run of two zones with a request each, the first of which failed.
C8_Witness ==
    /\ pc = "done"
    /\ Count(net, "request") = 2
    /\ fetched[1] = "error"
    /\ Count(net, "sleep") = 2

FatalMessages ==
    {"No models found after download attempt. Exiting.", "Error preparing training data"}

FatalReported == \E i \in DOMAIN stdout : stdout[i] \in FatalMessages

NoZoneWork ==
    /\ fetched = <<>>
    /\ net = <<>>
    /\ rec = <<>>
    /\ all_zone_daily_loads = <<>>
    /\ all_zone_peak_hours = <<>>
    /\ all_zone_top_two_days = <<>>
    /\ fields = <<>>
    /\ \A i \in DOMAIN stdout : stdout[i] # "record"

\* The loop is entered only with a zone list and a historical frame that meet
\* the preconditions.
PreconditionsMet ==
    /\ zones # <<>>
    /\ df_train.rows # <<>>
    /\ Range(NeededCols) \subseteq Range(df_train.cols)
    /\ \A i \in DOMAIN df_train.rows :
          YearOf(df_train.rows[i]["datetime_beginning_ept"].v) >= CutoverYear

\* C9 as stated: a fatal precondition aborts the run before any per-zone work,
\* and the error leaves main() as an exception to the caller.
C9_FatalSurfaces ==
    FatalReported => NoZoneWork /\ pc = "crashed"

\* C9 amended: a fatal precondition aborts the run before any per-zone work (no
\* request, no delay, no accumulated record, no output record); main() prints
\* the error and returns normally, and the loop only starts when the
\* preconditions hold.
C9_FatalReturns ==
    /\ FatalReported => NoZoneWork /\ pc = "returned" /\ Last(stdout) \in FatalMessages
    /\ pc = "returned" => FatalReported
    /\ pc \in {"fetch", "sleep", "process", "assemble", "done", "crashed"} => PreconditionsMet

\* main() returned on a failure of prepare_training_data, zones having been found.
C9_Witness ==
    /\ pc = "returned"
    /\ zones # <<>>
    /\ Last(stdout) = "Error preparing training data"

WarningMessages ==
    {"FLAG: Exception occurred fetching weather", "FLAG: Weather information absent in API"}

\* C10: a zone with a parameter file but no registry entry is skipped with a
\* warning: no request is sent for it, a warning is printed for it as for every
\* zone whose fetch gives nothing, the run goes on and ends having processed
\* every zone.
C10_UnregisteredWarned ==
    /\ Count(net, "request") = Len(fetched) - Count(fetched, "unregistered")
    /\ \A i \in DOMAIN rec : fetched[i] = "unregistered" => rec[i].kind = "no_weather"
    /\ LoopOver => Len(rec) = Len(zones)
    /\ Cardinality({i \in DOMAIN stdout : stdout[i] \in WarningMessages})
          >= Count(fetched, "unregistered") + Count(fetched, "error") + Count(fetched, "no_hourly")

\* C13: a zone that gets past the weather and parameter steps with a cleaned
\* historical slice of fewer than 24 rows (none included) does not take the
\* success path, and one routed to the failure path for its history has the
\* full sentinel record.
C13_ShortHistoryFails ==
    \A i \in DOMAIN rec :
        (/\ Len(ZoneSlice(df_train, rec[i].zone).rows) < 24
         /\ rec[i].kind \notin {"no_weather", "params_unreadable"})
        => /\ rec[i].kind # "success"
           /\ rec[i].kind = "no_history" =>
                 /\ rec[i].loads = <<SentinelLoads>>
                 /\ rec[i].peaks = <<-1>>
                 /\ rec[i].tops = <<-1>>

\* C14: for a zone on the success path with a predicted mean f of N steps
\* (values in tenths), the stored load curve has 24 entries, the h-th being
\* step N-240+h-1 (0-based) of f rounded to a nearest integer, and the stored
\* peak hour p is in 0..23 with step N-240+p the maximum of those 24 steps.
C14_WindowAndPeak ==
    \A i \in DOMAIN rec :
        rec[i].kind = "success" =>
            LET f == rec[i].forecast
                N == Len(f)
                L == rec[i].loads[1]
                p == rec[i].peaks[1]
            IN  /\ N >= 240
                /\ Len(rec[i].loads) = 1 /\ Len(rec[i].peaks) = 1
                /\ Len(L) = 24
                /\ \A h \in 1..24 :
                      /\ 10 * L[h] - f[N - 240 + h] <= 5
                      /\ f[N - 240 + h] - 10 * L[h] <= 5
                /\ p \in 0..23
                /\ \A h \in 1..24 : f[N - 240 + h] <= f[N - 240 + p + 1]

\* A zone with a rising 264-step forecast: the second entry of the curve is
\* step 25 (value 1009.5, rounded to 1010) and the window peaks at hour 16.
C14_Witness ==
    \E i \in DOMAIN rec :
        /\ rec[i].kind = "success"
        /\ Len(rec[i].forecast) = 264
        /\ rec[i].forecast[26] = 10095
        /\ rec[i].loads[1][2] = 1010
        /\ rec[i].peaks = <<16>>

\* f[lo + 1] + ... + f[lo + n]
RECURSIVE SumFrom(_, _, _)
SumFrom(f, lo, n) == IF n = 0 THEN 0 ELSE f[lo + n] + SumFrom(f, lo, n - 1)

\* 24 times the mean of the d-th of the last ten 24-hour buckets of f
DaySums(f) == [d \in 1..10 |-> SumFrom(f, Len(f) - 240 + 24 * (d - 1), 24)]

\* The flag vector marks exactly the two highest of the ten daily means.
MarksTopTwo(flags, m) ==
    /\ flags \in [1..10 -> {0, 1}]
    /\ Cardinality({d \in 1..10 : flags[d] = 1}) = 2
    /\ \A d, e \in 1..10 : flags[d] = 1 /\ flags[e] = 0 => m[d] >= m[e]

\* C15 as stated: on the success path the stored anomaly indicator is 0 or 1,
\* the flag vector marks exactly the two days of highest mean among the last
\* ten, and the stored indicator is the flag of the day ranked first (a day of
\* highest mean).
C15_FirstRankedFlag ==
    \A i \in DOMAIN rec :
        rec[i].kind = "success" =>
            LET m == DaySums(rec[i].forecast)
            IN  /\ Len(rec[i].tops) = 1
                /\ rec[i].tops[1] \in {0, 1}
                /\ MarksTopTwo(rec[i].top_two, m)
                /\ \E r \in 1..10 :
                      /\ \A d \in 1..10 : m[d] <= m[r]
                      /\ rec[i].tops[1] = rec[i].top_two[r]

\* C15, amended: on the success path the stored anomaly indicator is 0 or 1,
\* the flag vector marks exactly the two days of highest mean among the last
\* ten, and the stored indicator is the flag of the first of those ten days in
\* time order (the day of the stored load curve).
C15_FirstDayFlag ==
    \A i \in DOMAIN rec :
        rec[i].kind = "success" =>
            LET m == DaySums(rec[i].forecast)
            IN  /\ Len(rec[i].tops) = 1
                /\ rec[i].tops[1] \in {0, 1}
                /\ MarksTopTwo(rec[i].top_two, m)
                /\ rec[i].tops[1] = rec[i].top_two[1]

\* A zone with a rising forecast: the last two days are flagged, the first of
\* the ten is not, and the stored indicator is 0.
C15_Witness ==
    \E i \in DOMAIN rec :
        /\ rec[i].kind = "success"
        /\ rec[i].top_two = <<0, 0, 0, 0, 0, 0, 0, 0, 1, 1>>
        /\ rec[i].tops = <<0>>

(***************************************************************************)
(* The degree-hour features over a range of temperatures: a one-row series *)
(* per temperature, encoded by the same two actions as under SpecEnc.      *)
(***************************************************************************)
TempRange == (TBASE - MaxDelta)..(TBASE + MaxDelta)

InitTemp ==
    /\ enc_pc = "input"
    /\ enc_in \in {<<[ts |-> 60, temp |-> t]>> : t \in TempRange}
    /\ enc_out = <<>>
    /\ PipeOff

SpecTemp == InitTemp /\ [][NextEnc]_vars

\* C11: for every temperature t, in the live and in the historical encoding
\* alike, CDH and HDH are not negative, are never both positive, and
\* CDH - HDH = t - T_base with the one T_base = 18.
C11_DegreeHours ==
    \A k \in DOMAIN enc_out : \A i \in DOMAIN enc_in :
        LET cdh == enc_out[k].rows[i]["CDH"]
            hdh == enc_out[k].rows[i]["HDH"]
        IN  /\ ~cdh.null /\ ~hdh.null
            /\ cdh.v >= 0 /\ hdh.v >= 0
            /\ ~(cdh.v > 0 /\ hdh.v > 0)
            /\ cdh.v - hdh.v = enc_in[i].temp - 18

\* Both encodings of a temperature 5 degrees below the base: HDH = 5, CDH = 0.
C11_Witness ==
    /\ enc_pc = "done"
    /\ Len(enc_out) = 2
    /\ enc_in[1].temp = 13
    /\ \A k \in 1..2 : enc_out[k].rows[1]["HDH"] = Cell(5) /\ enc_out[k].rows[1]["CDH"] = Cell(0)

(***************************************************************************)
(* The preparer and the per-zone slice over richer tables: up to           *)
(* MaxPrepRows rows, in any order and with repetition, among rows before   *)
(* and after the cutover, with and without load or temperature, of         *)
(* ordinary and of aggregate zones.                                        *)
(***************************************************************************)
PrepRowPool ==
    {HistRow(8 * 24 + 1, "AEP", Cell(900), Cell(25)),
     HistRow(7 * 24, "AEP", Cell(800), Cell(10)),
     HistRow(24, "AEP", Cell(800), Cell(5)),
     HistRow(9 * 24, "AEP", NaN, Cell(20)),
     HistRow(8 * 24 + 8, "AEP", Cell(700), NaN),
     HistRow(10 * 24, "RTO", Cell(5000), Cell(15)),
     HistRow(7 * 24 + 12, "AE", Cell(300), Cell(15)),
     HistRow(7 * 24 + 2, "BGE", Cell(600), Cell(30))}

PrepTables ==
    {[exists |-> FALSE, columns |-> {}, rows |-> <<>>]}
    \cup {[exists |-> TRUE, columns |-> Range(NeededCols), rows |-> r] :
            r \in UNION {[1..n -> PrepRowPool] : n \in 0..MaxPrepRows}}

SliceZones == Range(ModelFileZones) \cup {"AE", "RTO"}

InitPrep ==
    /\ enc_pc = "table"
    /\ enc_in \in PrepTables
    /\ enc_out = <<>>
    /\ PipeOff

\* prepare_training_data on the table (main, src lines 295-299)
PrepareTable ==
    /\ enc_pc = "table"
    /\ LET r == prepare_training_data(enc_in)
       IN  /\ enc_out' = <<r>>
           /\ enc_pc' = IF r.raised # "" THEN "done" ELSE "prepared"
    /\ UNCHANGED enc_in
    /\ UNCHANGED pipeVars

\* one iteration's df_zone (main, src lines 327-328)
SliceZone ==
    /\ enc_pc = "prepared"
    /\ \E zone \in SliceZones :
          enc_out' = Append(enc_out, [zone |-> zone, df |-> ZoneSlice(enc_out[1].df, zone)])
    /\ enc_pc' = "done"
    /\ UNCHANGED enc_in
    /\ UNCHANGED pipeVars

NextPrep == PrepareTable \/ SliceZone

SpecPrep == InitPrep /\ [][NextPrep]_vars

\* C12: every row of a zone's historical series is dated 2025 or later, has
\* no null in any column (load, temperature and exogenous features included),
\* is of the zone itself and of neither AE nor RTO, and the rows are in
\* ascending order of timestamp.
C12_CleanSortedHistory ==
    \A k \in 2..Len(enc_out) :
        LET s == enc_out[k].df
            z == enc_out[k].zone
        IN  /\ \A i \in DOMAIN s.rows :
                  /\ s.rows[i]["datetime_beginning_ept"].v >= 48
                  /\ \A c \in Range(s.cols) : ~s.rows[i][c].null
                  /\ s.rows[i]["load_area"].v = z
                  /\ s.rows[i]["load_area"].v \notin {"AE", "RTO"}
            /\ \A i, j \in DOMAIN s.rows :
                  i < j => s.rows[i]["datetime_beginning_ept"].v
                               <= s.rows[j]["datetime_beginning_ept"].v

\* A table whose rows are out of order, with a row before the cutover
\* between them: the slice keeps the two 2025 rows, the earlier one first.
C12_Witness ==
    /\ enc_pc = "done"
    /\ Len(enc_out) = 2
    /\ enc_out[2].zone = "AEP"
    /\ Len(enc_in.rows) = 3
    /\ enc_in.rows[1]["datetime_beginning_ept"].v = 8 * 24 + 1
    /\ enc_in.rows[2]["datetime_beginning_ept"].v = 24
    /\ enc_in.rows[3]["datetime_beginning_ept"].v = 7 * 24
    /\ Len(enc_out[2].df.rows) = 2
    /\ enc_out[2].df.rows[1]["datetime_beginning_ept"].v = 7 * 24

====
